---- MODULE Spec2Model ----
(***************************************************************************)
(* homework_bot (src/homework.py): a polling bot that asks the homework    *)
(* review API for the status of a submission and relays status changes to *)
(* one Telegram chat.  The module models main() and the functions it      *)
(* calls as a state machine: one action per step of main(), each applying *)
(* an operator translated from the function the step calls.               *)
(*                                                                         *)
(* Texts: TLA+ strings are ASCII, so every Russian text of the source is  *)
(* written as its transliteration; f-strings are string concatenations.   *)
(***************************************************************************)
EXTENDS Integers, Sequences, FiniteSets, TLC

VARIABLES
    environ,            \* os.environ after load_dotenv(): names present -> value
    pc,                 \* position of main(): main, fetch, check, compare, parse,
                        \* send_status, except, send_error, sleep, raised
    clock,              \* time.time()
    current_timestamp,  \* main's local, line 193
    status,             \* main's local, line 194: the stored last status
    message_error,      \* main's local, line 195: the stored last error message
    response,           \* main's local, line 198
    homework,           \* main's local, line 199
    message,            \* main's local, lines 201 and 217
    error,              \* the exception being handled (line 215) or raised by main
    remote,             \* what the API endpoint did at the latest request
    from_date,          \* the from_date parameter of the latest request
    sends,              \* calls of bot.send_message made in the current cycle
    log,                \* log records written in the current cycle (or at startup)
    sleeps,             \* arguments of the time.sleep calls since the latest request
    status0,            \* status at the start of the current cycle
    requests,           \* number of API requests made so far (saturating)
    n_sent,             \* number of messages the client accepted so far (saturating)
    all_same,           \* every request so far met the same remote outcome
    last_failure,       \* text of the latest failure notification of an earlier cycle
    seen,               \* <<S>>: S is the status of the first record of the latest
                        \* cycle that did not fail and whose record had one
    after_failure,      \* the previous cycle ended on the error path
    lost                \* <<S>>: the client rejected the notification of the
                        \* change to S and the remote status has been S since

vars == <<environ, pc, clock, current_timestamp, status, message_error, response,
          homework, message, error, remote, from_date, sends, log, sleeps,
          status0, requests, n_sent, all_same, last_failure, seen, after_failure,
          lost>>

---------------------------------------------------------------------------
(* Bounds of the model.                                                    *)

\* cycles counted by requests and n_sent before the counters saturate
MaxCycles == 2
\* time.time() when main() starts
StartTime == 1000

(* Program constants.                                                      *)

RETRY_TIME == 600
HTTP_OK == 200

MaxClock == StartTime + MaxCycles * RETRY_TIME

Min(a, b) == IF a < b THEN a ELSE b

---------------------------------------------------------------------------
(* Python values.  A str is a TLA+ string (statuses, names, messages); a   *)
(* decoded JSON body is tagged with its Python type.                       *)

PyNone == [type |-> "NoneType"]
PyStr(s) == [type |-> "str", val |-> s]
PyList(items) == [type |-> "list", items |-> items]
PyDict(map) == [type |-> "dict", map |-> map]

\* An exception instance: its class and its single argument.
Exc(cls, msg) == [cls |-> cls, msg |-> msg]
NoError == Exc("", "")

\* str(error), as the f-string of line 217 takes it: KeyError shows the repr of
\* its argument, every other class of the program shows the argument itself.
StrOf(e) == IF e.cls = "KeyError" THEN "'" \o e.msg \o "'" ELSE e.msg

\* isinstance(e, telegram.TelegramError)
IsTelegramError(e) == e.cls \in {"TelegramError"}

\* The result of a call: it returns value, or raises exc; log holds the records
\* it wrote.
Return(value, records) ==
    [raised |-> FALSE, value |-> value, exc |-> NoError, log |-> records]
Raise(exc, records) ==
    [raised |-> TRUE, value |-> PyNone, exc |-> exc, log |-> records]

---------------------------------------------------------------------------
(* Module level, lines 13-26.                                              *)

KEYS == <<"YANDEX_TOKEN", "BOT_TOKEN", "MY_ID">>

\* os.getenv(name): None when the name is absent
getenv(env, name) == IF name \in DOMAIN env THEN PyStr(env[name]) ELSE PyNone

PRACTICUM_TOKEN(env) == getenv(env, "YANDEX_TOKEN")
TELEGRAM_TOKEN(env) == getenv(env, "BOT_TOKEN")
TELEGRAM_CHAT_ID(env) == getenv(env, "MY_ID")

\* bool(v) of None or a str
Truthy(v) == v # PyNone /\ v # PyStr("")

HOMEWORK_STATUSES ==
    [approved  |-> "Rabota proverena: revyueru vsyo ponravilos. Ura!",
     reviewing |-> "Rabota vzyata na proverku revyuerom.",
     rejected  |-> "Rabota proverena: u revyuera est zamechaniya."]

---------------------------------------------------------------------------
(* send_message, lines 74-85.  client is what bot.send_message does with  *)
(* the call: it returns, or it raises client.exc.  calls holds the call   *)
(* of bot.send_message made, with the way it and send_message ended.      *)

BotCall(text, client, propagated) ==
    [text |-> text, raised |-> client.raised, exc |-> client.exc,
     propagated |-> propagated]

send_message(text, client) ==
    IF ~client.raised
    THEN \* line 81: the text is no f-string, it is logged as written
         [raised |-> FALSE, exc |-> NoError,
          calls |-> <<BotCall(text, client, FALSE)>>,
          log |-> << <<"INFO",
                       "Otpravleno soobshchenie v chat {TELEGRAM_CHAT_ID}: {message}">> >>]
    ELSE IF IsTelegramError(client.exc)
    THEN [raised |-> FALSE, exc |-> NoError,
          calls |-> <<BotCall(text, client, FALSE)>>,
          log |-> << <<"ERROR",
                       "Oshibka otpravki soobshcheniya " \o StrOf(client.exc)>> >>]
    ELSE \* no except clause matches: the exception leaves send_message
         [raised |-> TRUE, exc |-> client.exc,
          calls |-> <<BotCall(text, client, TRUE)>>, log |-> <<>>]

---------------------------------------------------------------------------
(* get_api_answer, lines 88-115.  srv is what the endpoint does with the  *)
(* request: kind "RequestException" (requests.get raises), or kind        *)
(* "response" with a status_code, json_ok (the body decodes) and the      *)
(* decoded body.                                                          *)

\* line 90: current_timestamp or int(time.time())
timestamp_of(ts, now) == IF ts # 0 THEN ts ELSE now

\* lines 93-115: what the request ends in
api_result(srv) ==
    IF srv.kind = "RequestException"
    THEN LET api_answer_error == "Oshibka pri zaprose k API: " \o srv.text
         IN  Raise(Exc("RequestExceptionError", api_answer_error),
                   << <<"ERROR", api_answer_error>> >>)
    ELSE IF srv.status_code # HTTP_OK
    THEN LET status_code_error == "Oshibka " \o ToString(srv.status_code)
         IN  Raise(Exc("StatusCodeError", status_code_error),
                   << <<"ERROR", status_code_error>> >>)
    ELSE IF ~srv.json_ok
    THEN \* line 115 calls json.JSONDecodeError with one argument; its
         \* constructor takes (msg, doc, pos), so the call raises TypeError
         LET api_answer_error == "Oshibka otveta formata json " \o srv.text
         IN  Raise(Exc("TypeError",
                       "__init__() missing 2 required positional arguments: 'doc' and 'pos'"),
                   << <<"ERROR", api_answer_error>> >>)
    ELSE Return(srv.body, <<>>)

\* the call: params is the query of the request it makes (line 91)
get_api_answer(ts, now, srv) ==
    [params |-> [from_date |-> timestamp_of(ts, now)]] @@ api_result(srv)

---------------------------------------------------------------------------
(* check_response, lines 118-137.                                         *)

check_response(resp) ==
    IF resp = PyNone
    THEN LET response_error == "response imeet nepravilnoe znachenie"
         IN  Raise(Exc("DictionaryError", response_error),
                   << <<"ERROR", response_error>> >>)
    ELSE IF resp.type # "dict"
    THEN Raise(Exc("TypeError", "Otvet ne yavlyaetsya slovarem"),
               << <<"ERROR", "Otvet ne yavlyaetsya slovarem">> >>)
    ELSE IF "homeworks" \notin DOMAIN resp.map
    THEN \* the subscript of line 129
         Raise(Exc("KeyError", "homeworks"), <<>>)
    ELSE IF resp.map["homeworks"].type # "list"
    THEN Raise(Exc("TypeError", "Domashnyaya rabota ne yavlyaetsya spiskom"),
               << <<"ERROR", "Domashnyaya rabota ne yavlyaetsya spiskom">> >>)
    ELSE IF resp.map["homeworks"].items = <<>>
    THEN Raise(Exc("KeyError", "Spisok domashnih rabot pust"),
               << <<"INFO", "Spisok domashnih rabot pust">> >>)
    ELSE Return(resp.map["homeworks"].items, <<>>)

---------------------------------------------------------------------------
(* parse_status, lines 140-158.  A homework record is a function from the *)
(* keys it has to their str values.                                       *)

\* Mutation of parse_status for C9: an unknown status falls back to a verdict
\* (HOMEWORK_STATUSES.get with a default) where the source raises.
parse_status_default(hw) ==
    IF "homework_name" \notin DOMAIN hw
    THEN Raise(Exc("KeyError", "homework_name"), <<>>)
    ELSE IF "status" \notin DOMAIN hw
    THEN Raise(Exc("KeyError", "status"), <<>>)
    ELSE LET verdict == IF hw["status"] \in DOMAIN HOMEWORK_STATUSES
                        THEN HOMEWORK_STATUSES[hw["status"]]
                        ELSE HOMEWORK_STATUSES["reviewing"]
         IN  Return("Izmenilsya status proverki raboty \"" \o hw["homework_name"]
                    \o "\". " \o verdict, <<>>)

\* Mutation of parse_status for C16: the name is read with homework.get, so a
\* record without a name is described under the name None.
parse_status_get(hw) ==
    LET homework_name == IF "homework_name" \in DOMAIN hw
                         THEN hw["homework_name"] ELSE "None"
    IN  IF "status" \notin DOMAIN hw
        THEN Raise(Exc("KeyError", "status"), <<>>)
        ELSE IF hw["status"] \notin DOMAIN HOMEWORK_STATUSES
        THEN Raise(Exc("UnknownStatusError",
                       "Neizvestnyi status raboty: " \o hw["status"]), <<>>)
        ELSE Return("Izmenilsya status proverki raboty \"" \o homework_name
                    \o "\". " \o HOMEWORK_STATUSES[hw["status"]], <<>>)

parse_status(hw) ==
    IF "homework_name" \notin DOMAIN hw
    THEN \* the subscript of line 145, before the test of line 146
         Raise(Exc("KeyError", "homework_name"), <<>>)
    ELSE IF "status" \notin DOMAIN hw
    THEN \* the subscript of line 149
         Raise(Exc("KeyError", "status"), <<>>)
    ELSE IF hw["status"] \notin DOMAIN HOMEWORK_STATUSES
    THEN Raise(Exc("UnknownStatusError",
                   "Neizvestnyi status raboty: " \o hw["status"]), <<>>)
    ELSE LET verdict == HOMEWORK_STATUSES[hw["status"]]
         IN  Return("Izmenilsya status proverki raboty \"" \o hw["homework_name"]
                    \o "\". " \o verdict, <<>>)

---------------------------------------------------------------------------
(* check_os_keys and check_tokens, lines 161-177.                         *)

\* the for loop of lines 169-171 from keys[i] on; falling off the loop
\* returns None, which main tests as false
RECURSIVE check_os_keys_from(_, _)
check_os_keys_from(env, i) ==
    IF i > Len(KEYS) THEN FALSE
    ELSE IF KEYS[i] \in DOMAIN env THEN TRUE
    ELSE check_os_keys_from(env, i + 1)

check_os_keys(env) == check_os_keys_from(env, 1)

\* Mutation of check_tokens for C6: any() where the source has all().
check_tokens_any(env) ==
    \/ Truthy(PRACTICUM_TOKEN(env))
    \/ Truthy(TELEGRAM_TOKEN(env))
    \/ Truthy(TELEGRAM_CHAT_ID(env))

check_tokens(env) ==
    /\ Truthy(PRACTICUM_TOKEN(env))
    /\ Truthy(TELEGRAM_TOKEN(env))
    /\ Truthy(TELEGRAM_CHAT_ID(env))

---------------------------------------------------------------------------
(* The inputs: what the environment, the endpoint and the messaging       *)
(* client can do.                                                         *)

KeySet == {KEYS[i] : i \in 1..Len(KEYS)}

\* os.environ restricted to the three names: each absent, empty or set
Environs == UNION {[D -> {"", "secret"}] : D \in SUBSET KeySet}

Names == {"hw1"}
Statuses == {"approved", "reviewing", "rejected", "unknown", ""}
FIELDS == {"homework_name", "status"}

\* a homework record has any of the two fields
HomeworkRecords ==
    UNION {{f \in [D -> Names \cup Statuses] :
                /\ "homework_name" \in D => f["homework_name"] \in Names
                /\ "status" \in D => f["status"] \in Statuses} :
           D \in SUBSET FIELDS}

\* the older records that may follow the first one
OlderRecords ==
    {[homework_name |-> "hw0", status |-> "rejected"],
     [homework_name |-> "hw0", status |-> "approved"]}

\* how many older records follow the first one, at most
MaxOlder == 1

Older == UNION {[1..n -> OlderRecords] : n \in 0..MaxOlder}

HomeworkLists == {<<>>} \cup {<<r>> \o t : r \in HomeworkRecords, t \in Older}

\* decoded bodies: null, a list, a dict without 'homeworks', a dict whose
\* 'homeworks' is null, a dict whose 'homeworks' is a list of records
Bodies ==
    {PyNone, PyList(<<>>), PyDict(<<>>), PyDict([homeworks |-> PyNone])}
    \cup {PyDict([homeworks |-> PyList(l)]) : l \in HomeworkLists}

Server(kind, text, status_code, json_ok, body) ==
    [kind |-> kind, text |-> text, status_code |-> status_code,
     json_ok |-> json_ok, body |-> body]

NoRequest == Server("", "", 0, FALSE, PyNone)

Remotes ==
    {Server("RequestException", "Connection refused", 0, FALSE, PyNone)}
    \cup {Server("response", "", c, TRUE, PyNone) : c \in {503, 404}}
    \cup {Server("response", "Expecting value: line 1 column 1 (char 0)",
                 HTTP_OK, FALSE, PyNone)}
    \cup {Server("response", "", HTTP_OK, TRUE, b) : b \in Bodies}

\* bot.send_message returns, raises a telegram.TelegramError, or raises an
\* exception of another class
BotOk == [raised |-> FALSE, exc |-> NoError]
BotRaises(e) == [raised |-> TRUE, exc |-> e]
BotOutcomes ==
    {BotOk,
     BotRaises(Exc("TelegramError", "Forbidden: bot was blocked by the user")),
     BotRaises(Exc("RuntimeError", "unexpected failure of the client"))}

---------------------------------------------------------------------------
(* main, lines 180-223, step by step.  Each step is an operator from the  *)
(* state before it (and what the outside does during it) to the state     *)
(* after it.                                                              *)

State ==
    [environ |-> environ, pc |-> pc, clock |-> clock,
     current_timestamp |-> current_timestamp, status |-> status,
     message_error |-> message_error, response |-> response,
     homework |-> homework, message |-> message, error |-> error,
     remote |-> remote, from_date |-> from_date, sends |-> sends, log |-> log,
     sleeps |-> sleeps, status0 |-> status0, requests |-> requests,
     n_sent |-> n_sent, all_same |-> all_same, last_failure |-> last_failure,
     seen |-> seen, after_failure |-> after_failure, lost |-> lost]

\* an exception raised inside the try block reaches line 215
Caught(s, exc, records) ==
    [s EXCEPT !.pc = "except", !.error = exc, !.log = s.log \o records]

\* an exception raised outside the try block ends main
Uncaught(s, exc, records) ==
    [s EXCEPT !.pc = "raised", !.error = exc, !.log = s.log \o records]

\* lines 182-195
main_start(s) ==
    IF ~check_os_keys(s.environ)
    THEN LET token_error == "Otsutstvuet token v sisteme"
         IN  Uncaught(s, Exc("TokenSystemError", token_error),
                      << <<"CRITICAL", token_error>> >>)
    ELSE IF ~check_tokens(s.environ)
    THEN LET variable_error == "Otsutstvuet peremennaya okruzheniya"
         IN  Uncaught(s, Exc("EnvironmentVariableError", variable_error),
                      << <<"CRITICAL", variable_error>> >>)
    ELSE [s EXCEPT !.pc = "fetch", !.current_timestamp = s.clock,
                   !.status = "", !.message_error = ""]

\* the failure notification the cycle that ended in s delivered, if any: the
\* call of line 219 carries the message of line 217
FailureDelivered(s) ==
    /\ s.error # NoError
    /\ \E i \in DOMAIN s.sends : s.sends[i].text = s.message /\ ~s.sends[i].raised

\* line 198
main_fetch(s, srv) ==
    LET r == get_api_answer(s.current_timestamp, s.clock, srv)
        t == [s EXCEPT !.remote = srv,
                       !.from_date = r.params.from_date,
                       !.requests = Min(s.requests + 1, MaxCycles),
                       !.all_same = s.all_same /\ (s.requests = 0 \/ srv = s.remote),
                       !.status0 = s.status,
                       !.sleeps = <<>>]
    IN  IF r.raised THEN Caught(t, r.exc, r.log)
        ELSE [t EXCEPT !.pc = "check", !.response = r.value,
                       !.log = t.log \o r.log]

\* Mutation of first_record for C10: the subscript [-1] where the source has [0].
last_record(homeworks) == homeworks[Len(homeworks)]

\* line 199, the subscript [0]
first_record(homeworks) == homeworks[1]

\* line 199
main_check(s) ==
    LET r == check_response(s.response)
    IN  IF r.raised THEN Caught(s, r.exc, r.log)
        ELSE [s EXCEPT !.pc = "compare", !.homework = first_record(r.value),
                       !.log = s.log \o r.log]

\* bool(homework) of a dict
NonEmpty(hw) == DOMAIN hw # {}

\* Mutation of main_compare for C2: the test of line 200 without its comparison
\* of the statuses.
main_compare_no_test(s) ==
    IF NonEmpty(s.homework) /\ "status" \notin DOMAIN s.homework
    THEN Caught(s, Exc("KeyError", "status"), <<>>)
    ELSE IF NonEmpty(s.homework)
    THEN [s EXCEPT !.pc = "parse"]
    ELSE [s EXCEPT !.pc = "sleep",
                   !.log = s.log \o << <<"INFO",
                       "Izmenenii net, povtornyi zapros k API cherez 10 minut">> >>]

\* Mutation of main_compare for C13: the else branch of line 209 goes back to
\* the request without its time.sleep of line 214.
main_compare_no_sleep(s) ==
    IF NonEmpty(s.homework) /\ "status" \notin DOMAIN s.homework
    THEN Caught(s, Exc("KeyError", "status"), <<>>)
    ELSE IF NonEmpty(s.homework) /\ s.status # s.homework["status"]
    THEN [s EXCEPT !.pc = "parse"]
    ELSE [s EXCEPT !.pc = "fetch",
                   !.log = s.log \o << <<"INFO",
                       "Izmenenii net, povtornyi zapros k API cherez 10 minut">> >>]

\* lines 200 and 209-213
main_compare(s) ==
    IF NonEmpty(s.homework) /\ "status" \notin DOMAIN s.homework
    THEN Caught(s, Exc("KeyError", "status"), <<>>)
    ELSE IF NonEmpty(s.homework) /\ s.status # s.homework["status"]
    THEN [s EXCEPT !.pc = "parse"]
    ELSE [s EXCEPT !.pc = "sleep",
                   !.log = s.log \o << <<"INFO",
                       "Izmenenii net, povtornyi zapros k API cherez 10 minut">> >>]

\* Mutation of main_parse for C17: the assignment of line 203 made before the
\* call of parse_status instead of after the notification.
main_parse_status_first(s) ==
    LET r == parse_status(s.homework)
        t == [s EXCEPT !.status = s.homework["status"]]
    IN  IF r.raised THEN Caught(t, r.exc, r.log)
        ELSE [t EXCEPT !.pc = "send_status", !.message = r.value]

\* line 201
main_parse(s) ==
    LET r == parse_status(s.homework)
    IN  IF r.raised THEN Caught(s, r.exc, r.log)
        ELSE [s EXCEPT !.pc = "send_status", !.message = r.value]

\* the calls of r that the client accepted
Delivered(calls) == {i \in DOMAIN calls : ~calls[i].raised}

\* a call of send_message is recorded
Sent(s, r) ==
    [s EXCEPT !.sends = s.sends \o r.calls, !.log = s.log \o r.log,
              !.n_sent = Min(s.n_sent + Cardinality(Delivered(r.calls)), MaxCycles)]

\* Mutation of main_send_status for C19: line 203 is run only when the client
\* accepted the message.
main_send_status_if_delivered(s, client) ==
    LET r == send_message(s.message, client)
        t == Sent(s, r)
    IN  IF r.raised THEN Caught(t, r.exc, <<>>)
        ELSE [t EXCEPT !.pc = "sleep",
                       !.status = IF Delivered(r.calls) # {}
                                  THEN s.homework["status"] ELSE s.status,
                       !.log = t.log \o << <<"INFO",
                           "Est izmeneniya, <<" \o s.homework["status"]
                           \o ">>. Povtornyi zapros k API cherez 10 minut">> >>]

\* lines 202-207
main_send_status(s, client) ==
    LET r == send_message(s.message, client)
        t == Sent(s, r)
    IN  IF r.raised THEN Caught(t, r.exc, <<>>)
        ELSE [t EXCEPT !.pc = "sleep", !.status = s.homework["status"],
                       !.log = t.log \o << <<"INFO",
                           "Est izmeneniya, <<" \o s.homework["status"]
                           \o ">>. Povtornyi zapros k API cherez 10 minut">> >>]

\* lines 220-222
failure_logged(s) ==
    [s EXCEPT !.pc = "sleep",
              !.log = s.log \o << <<"INFO",
                  "Sboi programmy, povtornyi zapros k API cherez 10 minut">> >>]

\* Mutation of main_except for C18: the handler of line 215 forgets the stored
\* last status.
main_except_reset(s) ==
    LET text == "Sboi v rabote programmy: " \o StrOf(s.error)
        t == [s EXCEPT !.message = text, !.status = "",
                       !.log = s.log \o << <<"ERROR", StrOf(s.error)>> >>]
    IN  IF text # s.message_error THEN [t EXCEPT !.pc = "send_error"]
        ELSE failure_logged(t)

\* lines 215-218, and 220-222 when the message is not sent
main_except(s) ==
    LET text == "Sboi v rabote programmy: " \o StrOf(s.error)
        t == [s EXCEPT !.message = text,
                       !.log = s.log \o << <<"ERROR", StrOf(s.error)>> >>]
    IN  IF text # s.message_error THEN [t EXCEPT !.pc = "send_error"]
        ELSE failure_logged(t)

\* lines 219-222
main_send_error(s, client) ==
    LET r == send_message(s.message, client)
        t == Sent(s, r)
    IN  IF r.raised THEN Uncaught(t, r.exc, <<>>)
        ELSE failure_logged(t)

\* the cycle that ended in s called send_message for a status change (line
\* 202) and the client rejected the call with an error that send_message
\* caught (lines 82-85)
StatusSendRejected(s) ==
    /\ s.error = NoError
    /\ \E i \in DOMAIN s.sends :
          s.sends[i].raised /\ IsTelegramError(s.sends[i].exc)

\* lines 208, 214 and 223: time.sleep(RETRY_TIME).  The cycle ends here: the
\* record of its calls and log is closed, and the locals that the next cycle
\* assigns before it reads them (response, homework, message, error) are dropped
main_sleep(s) ==
    [s EXCEPT !.pc = "fetch", !.sleeps = Append(s.sleeps, RETRY_TIME),
              !.clock = Min(s.clock + RETRY_TIME, MaxClock),
              !.last_failure =
                  IF FailureDelivered(s) THEN s.message ELSE s.last_failure,
              !.seen =
                  IF s.error = NoError /\ "status" \in DOMAIN s.homework
                  THEN <<s.homework["status"]>> ELSE s.seen,
              !.after_failure = (s.error # NoError),
              !.lost =
                  IF StatusSendRejected(s) THEN <<s.homework["status"]>>
                  ELSE IF "status" \in DOMAIN s.homework
                          /\ <<s.homework["status"]>> # s.lost
                  THEN <<>> ELSE s.lost,
              !.status0 = s.status,
              !.sends = <<>>, !.log = <<>>,
              !.response = PyNone, !.homework = <<>>,
              !.message = "", !.error = NoError]

\* lines 199-222: the rest of a cycle from state s (after the request) to its
\* call of time.sleep (or to the end of main), the i-th call of
\* bot.send_message ending as clients[i]
RECURSIVE RunCycle(_, _)
RunCycle(s, clients) ==
    CASE s.pc = "check" -> RunCycle(main_check(s), clients)
      [] s.pc = "compare" -> RunCycle(main_compare(s), clients)
      [] s.pc = "parse" -> RunCycle(main_parse(s), clients)
      [] s.pc = "send_status" ->
            RunCycle(main_send_status(s, Head(clients)), Tail(clients))
      [] s.pc = "except" -> RunCycle(main_except(s), clients)
      [] s.pc = "send_error" ->
            RunCycle(main_send_error(s, Head(clients)), Tail(clients))
      [] OTHER -> s

---------------------------------------------------------------------------
(* The state machine.                                                     *)

Apply(t) ==
    /\ environ' = t.environ
    /\ pc' = t.pc
    /\ clock' = t.clock
    /\ current_timestamp' = t.current_timestamp
    /\ status' = t.status
    /\ message_error' = t.message_error
    /\ response' = t.response
    /\ homework' = t.homework
    /\ message' = t.message
    /\ error' = t.error
    /\ remote' = t.remote
    /\ from_date' = t.from_date
    /\ sends' = t.sends
    /\ log' = t.log
    /\ sleeps' = t.sleeps
    /\ status0' = t.status0
    /\ requests' = t.requests
    /\ n_sent' = t.n_sent
    /\ all_same' = t.all_same
    /\ last_failure' = t.last_failure
    /\ seen' = t.seen
    /\ after_failure' = t.after_failure
    /\ lost' = t.lost

Init ==
    /\ environ \in Environs
    /\ pc = "main"
    /\ clock = StartTime
    /\ current_timestamp = 0
    /\ status = ""
    /\ message_error = ""
    /\ response = PyNone
    /\ homework = <<>>
    /\ message = ""
    /\ error = NoError
    /\ remote = NoRequest
    /\ from_date = 0
    /\ sends = <<>>
    /\ log = <<>>
    /\ sleeps = <<>>
    /\ status0 = ""
    /\ requests = 0
    /\ n_sent = 0
    /\ all_same = TRUE
    /\ last_failure = ""
    /\ seen = <<>>
    /\ after_failure = FALSE
    /\ lost = <<>>

Start == pc = "main" /\ Apply(main_start(State))
Fetch == pc = "fetch" /\ \E srv \in Remotes : Apply(main_fetch(State, srv))
Check == pc = "check" /\ Apply(main_check(State))
Compare == pc = "compare" /\ Apply(main_compare(State))
Parse == pc = "parse" /\ Apply(main_parse(State))
SendStatus ==
    pc = "send_status" /\ \E client \in BotOutcomes : Apply(main_send_status(State, client))
Except == pc = "except" /\ Apply(main_except(State))
SendError ==
    pc = "send_error" /\ \E client \in BotOutcomes : Apply(main_send_error(State, client))
Sleep == pc = "sleep" /\ Apply(main_sleep(State))

Next ==
    \/ Start
    \/ Fetch
    \/ Check
    \/ Compare
    \/ Parse
    \/ SendStatus
    \/ Except
    \/ SendError
    \/ Sleep

Spec == Init /\ [][Next]_vars

TypeOK ==
    /\ pc \in {"main", "fetch", "check", "compare", "parse", "send_status",
               "except", "send_error", "sleep", "raised"}
    /\ status \in Statuses
    /\ requests \in 0..MaxCycles
    /\ Len(sends) <= 2

---------------------------------------------------------------------------
(* Vocabulary of the properties.                                           *)

\* the poll loop has been entered (its first statement is the request)
LoopEntered == pc # "main" /\ ~(pc = "raised" /\ requests = 0)

\* a cycle has run to its end: the loop is at its call of time.sleep
CycleDone == pc = "sleep"

\* the latest request ended in HTTP 200 with a body that decodes
FetchSucceeded ==
    remote.kind = "response" /\ remote.status_code = HTTP_OK /\ remote.json_ok

\* the body is a mapping whose 'homeworks' is a list
HasHomeworkList(resp) ==
    /\ resp.type = "dict"
    /\ "homeworks" \in DOMAIN resp.map
    /\ resp.map["homeworks"].type = "list"

HomeworksOf(resp) == resp.map["homeworks"].items

NonEmptyList(resp) == HasHomeworkList(resp) /\ HomeworksOf(resp) # <<>>

FirstOf(resp) == HomeworksOf(resp)[1]

Recognized == {"approved", "reviewing", "rejected"}

\* the text of a status-change notification
ChangeText(name, st) ==
    "Izmenilsya status proverki raboty \"" \o name \o "\". " \o HOMEWORK_STATUSES[st]

\* the text of a failure notification
FailureText(e) == "Sboi v rabote programmy: " \o StrOf(e)

IsChangeText(text) ==
    \E name \in Names \cup {"hw0"}, st \in Recognized : text = ChangeText(name, st)

\* the cycle failed: an exception reached line 215
CycleFailed == error # NoError

---------------------------------------------------------------------------
(* C1: in every cycle whose fetch succeeds, whose response is valid with a *)
(* non-empty list (the first record has a name and a status) and whose     *)
(* first record's status is a recognized code different from the stored    *)
(* last status, exactly one notification is sent, its text is the status   *)
(* change text for that name and verdict, and afterwards the stored last   *)
(* status is the record's status.                                          *)
C1_ChangeNotifiedOnce ==
    (/\ CycleDone
     /\ FetchSucceeded
     /\ NonEmptyList(response)
     /\ DOMAIN FirstOf(response) = FIELDS
     /\ FirstOf(response)["status"] \in Recognized
     /\ FirstOf(response)["status"] # status0)
    => /\ Len(sends) = 1
       /\ sends[1].text = ChangeText(FirstOf(response)["homework_name"],
                                     FirstOf(response)["status"])
       /\ status = FirstOf(response)["status"]

(* C2: in every cycle whose response is valid with a non-empty list and    *)
(* whose first record's status equals the stored last status, no           *)
(* notification is sent and the stored last status stays as it was; this   *)
(* holds at every point of the cycle, its end included.                    *)
C2_UnchangedIsSilent ==
    (/\ LoopEntered
     /\ NonEmptyList(response)
     /\ "status" \in DOMAIN FirstOf(response)
     /\ FirstOf(response)["status"] = status0)
    => /\ sends = <<>>
       /\ status = status0
       /\ ~CycleFailed
       /\ pc # "raised"

\* C2's case: a cycle that met the status stored by an earlier cycle has ended
C2_Witness ==
    /\ CycleDone
    /\ requests >= 2
    /\ NonEmptyList(response)
    /\ "status" \in DOMAIN FirstOf(response)
    /\ FirstOf(response)["status"] = status0
    /\ status0 = "approved"

(* C3: when a cycle fails with an error whose failure message is the       *)
(* message of the last failure notification already delivered, no failure  *)
(* notification is sent in that cycle (two cycles failing alike in a row   *)
(* notify once).                                                           *)
C3_DuplicateFailureSuppressed ==
    (/\ LoopEntered
     /\ CycleFailed
     /\ message = last_failure)
    => \A i \in DOMAIN sends : sends[i].text # message

(* C4: when the response is a mapping whose 'homeworks' is an empty list,  *)
(* the cycle raises nothing, sends nothing, leaves the poll state as it    *)
(* was, and goes on to its sleep: at no point of such a cycle is an        *)
(* exception being handled or a message sent.                              *)
C4_EmptyListIsQuiet ==
    (/\ LoopEntered
     /\ FetchSucceeded
     /\ HasHomeworkList(response)
     /\ HomeworksOf(response) = <<>>)
    => /\ ~CycleFailed
       /\ sends = <<>>
       /\ status = status0
       /\ message_error = ""
       /\ pc \in {"check", "sleep"}

(* C5: when every cycle meets the same outcome of the remote API, at most  *)
(* one notification is sent in the whole run, and none after the first     *)
(* cycle (counting the notifications the client accepted).                 *)
C5_UnchangedRemoteNotifiesOnce ==
    (LoopEntered /\ all_same)
    => /\ n_sent <= 1
       /\ requests >= 2 => Delivered(sends) = {}

(* C6: for every combination of the three credentials being absent, empty *)
(* or set: when one of them is absent or empty, main raises a fatal        *)
(* configuration error, logged at critical severity, before the loop is    *)
(* entered, and no API request and no chat message is ever made; the loop  *)
(* is entered only when all three are set and non-empty.                   *)
AllCredentials == \A k \in KeySet : k \in DOMAIN environ /\ environ[k] # ""

C6_MissingCredentialIsFatal ==
    /\ (pc # "main" /\ ~AllCredentials)
       => /\ pc = "raised"
          /\ error.cls \in {"TokenSystemError", "EnvironmentVariableError"}
          /\ \E i \in DOMAIN log : log[i] = <<"CRITICAL", error.msg>>
          /\ requests = 0
          /\ remote = NoRequest
          /\ sends = <<>>
          /\ n_sent = 0
    /\ LoopEntered => AllCredentials

\* C6's case: BOT_TOKEN is absent, the other two are set, and main has run
C6_Witness ==
    /\ pc = "raised"
    /\ DOMAIN environ = {"YANDEX_TOKEN", "MY_ID"}
    /\ environ["YANDEX_TOKEN"] # ""
    /\ environ["MY_ID"] # ""
    /\ error.cls = "EnvironmentVariableError"

(* C7: once main has entered the poll loop, the loop never ends: no        *)
(* failure of a cycle makes main return or raise.                          *)
C7_LoopNeverEnds == LoopEntered => pc # "raised"

(* C8: send_message never lets a failure of the client's send call out: in *)
(* every call the failure is logged and send_message returns normally.     *)
C8_SendNeverPropagates ==
    \A i \in DOMAIN sends :
        /\ ~sends[i].propagated
        /\ sends[i].raised
           => \E j \in DOMAIN log :
                  log[j] = <<"ERROR", "Oshibka otpravki soobshcheniya "
                                       \o StrOf(sends[i].exc)>>

(* C9, as claimed: for every first record whose status is outside the     *)
(* three recognized codes, the cycle fails with the unknown-status error,  *)
(* no status-change notification is sent and the stored last status is     *)
(* not changed.                                                            *)
UnknownFirstStatus ==
    /\ LoopEntered
    /\ NonEmptyList(response)
    /\ "status" \in DOMAIN FirstOf(response)
    /\ FirstOf(response)["status"] \notin Recognized

C9_UnknownStatusFails ==
    (UnknownFirstStatus /\ CycleDone)
    => /\ error.cls = "UnknownStatusError"
       /\ \A i \in DOMAIN sends : ~IsChangeText(sends[i].text)
       /\ status = status0

(* C9, amended: for every first record whose status is outside the three   *)
(* recognized codes, no status-change notification is sent and the stored  *)
(* last status is not changed, at any point of the cycle; the cycle fails  *)
(* with the unknown-status error when the record has a name and its status *)
(* differs from the stored last status, with KeyError('homework_name')     *)
(* when it differs and the record has no name, and it does not fail (and   *)
(* sends nothing) when the status equals the stored last status.           *)
C9_UnknownStatusNeverNotified ==
    UnknownFirstStatus
    => /\ \A i \in DOMAIN sends : ~IsChangeText(sends[i].text)
       /\ status = status0
       /\ pc = "sleep"
          => error =
                IF FirstOf(response)["status"] = status0 THEN NoError
                ELSE IF "homework_name" \notin DOMAIN FirstOf(response)
                THEN Exc("KeyError", "homework_name")
                ELSE Exc("UnknownStatusError", "Neizvestnyi status raboty: "
                                               \o FirstOf(response)["status"])
       /\ (pc = "sleep" /\ FirstOf(response)["status"] = status0)
          => sends = <<>>

\* C9's case: a cycle whose first record has the status 'unknown' has ended, after
\* a cycle that stored a recognized status
C9_Witness ==
    /\ UnknownFirstStatus
    /\ CycleDone
    /\ DOMAIN FirstOf(response) = FIELDS
    /\ FirstOf(response)["status"] = "unknown"
    /\ status0 = "approved"
    /\ error.cls = "UnknownStatusError"
    /\ Len(sends) = 1

(* C10: only the first record of the list influences a cycle: from the     *)
(* same state, two responses with the same first record and different      *)
(* older records make the cycle send the same notifications (or none) and  *)
(* end in the same poll state, however the messaging client answers.       *)
WithOlder(resp, older) == PyDict([homeworks |-> PyList(<<FirstOf(resp)>> \o older)])

Observed(s) ==
    [pc |-> s.pc, sends |-> s.sends, status |-> s.status,
     message_error |-> s.message_error, error |-> s.error, log |-> s.log,
     sleeps |-> s.sleeps]

\* how the calls of bot.send_message of one cycle can end: a second call is
\* made only by the handler of line 215, after the first call raised
ClientRuns ==
    {<<c>> : c \in {b \in BotOutcomes : ~send_message("", b).raised}}
    \cup {<<c1, c2>> : c1 \in {b \in BotOutcomes : send_message("", b).raised},
                       c2 \in BotOutcomes}

C10_OnlyFirstRecordCounts ==
    (pc = "check" /\ NonEmptyList(response))
    => \A clients \in ClientRuns :
          LET observed == Observed(RunCycle(State, clients))
          IN  \A older \in Older :
                  Observed(RunCycle([State EXCEPT
                                        !.response = WithOlder(response, older)],
                                    clients))
                  = observed

\* C10's case: the response holds two records, the first with a new recognized
\* status, the older one with the status stored by an earlier cycle
C10_Witness ==
    /\ pc = "check"
    /\ NonEmptyList(response)
    /\ Len(HomeworksOf(response)) = 2
    /\ DOMAIN FirstOf(response) = FIELDS
    /\ FirstOf(response)["status"] \in Recognized
    /\ FirstOf(response)["status"] # status
    /\ HomeworksOf(response)[2]["status"] = status

(* C11: in every cycle that fails with an error whose message differs     *)
(* from the stored last error message, a failure notification is sent and  *)
(* the stored last error message is updated, so that after the cycle it    *)
(* is the message of the failure notification just sent (its text, or the  *)
(* text of the error it reports).                                          *)
C11_LastErrorMessageStored ==
    (CycleDone /\ CycleFailed /\ FailureText(error) # message_error)
    => /\ \E i \in DOMAIN sends : sends[i].text = FailureText(error)
       /\ message_error \in {FailureText(error), StrOf(error)}

(* C12: in every cycle the from_date passed to the API is the time of that *)
(* request: from the request to the cycle's sleep the clock stands still,  *)
(* so throughout the cycle from_date is the clock.                         *)
C12_FromDateIsNow ==
    (LoopEntered /\ requests > 0 /\ pc \notin {"fetch", "raised"})
    => from_date = clock

(* C13: between any two consecutive requests of the loop there is exactly  *)
(* one sleep, of RETRY_TIME seconds, on every path through a cycle: no     *)
(* sleep has been made while a cycle is at work, and the loop is back at   *)
(* its request only after one sleep of RETRY_TIME.                         *)
C13_OneSleepPerCycle ==
    /\ (LoopEntered /\ requests > 0 /\ pc = "fetch") => sleeps = <<RETRY_TIME>>
    /\ (LoopEntered /\ pc \notin {"fetch", "raised"}) => sleeps = <<>>

\* C13's case: the loop is back at its request after a cycle that changed the
\* status, with an earlier cycle behind it
C13_Witness ==
    /\ pc = "fetch"
    /\ requests >= 2
    /\ sleeps = <<RETRY_TIME>>
    /\ status = "approved"
    /\ clock > StartTime + RETRY_TIME

\* the cycle's request has been answered and the cycle is not over
AfterFetch == LoopEntered /\ requests > 0 /\ pc \in {"check", "except"}

\* the classes of the exceptions that get_api_answer means to raise
FetchErrors == {"RequestExceptionError", "StatusCodeError", "JSONDecodeError"}

(* C14: get_api_answer maps its three failures to three distinct kinds of  *)
(* error: a failure of the transport raises RequestExceptionError with the *)
(* cause in its message, a status code other than 200 raises               *)
(* StatusCodeError with the code in its message, a body that is not JSON   *)
(* raises json.JSONDecodeError; a 200 with a JSON body returns the decoded *)
(* body and raises nothing.                                                *)
C14_FetchErrorKinds ==
    AfterFetch =>
        IF remote.kind = "RequestException"
        THEN /\ pc = "except"
             /\ error = Exc("RequestExceptionError",
                            "Oshibka pri zaprose k API: " \o remote.text)
        ELSE IF remote.status_code # HTTP_OK
        THEN /\ pc = "except"
             /\ error = Exc("StatusCodeError",
                            "Oshibka " \o ToString(remote.status_code))
        ELSE IF ~remote.json_ok
        THEN /\ pc = "except"
             /\ error.cls = "JSONDecodeError"
        ELSE \* nothing raised by the request: an error is one of a later step
             /\ response = remote.body
             /\ pc = "check" => error = NoError
             /\ pc = "except" => error.cls \notin FetchErrors

\* check_response has been called on the decoded body and the cycle has gone
\* no further (an exception of line 200 leaves a non-empty record behind)
AfterCheck ==
    /\ LoopEntered
    /\ FetchSucceeded
    /\ pc = "compare" \/ (pc = "except" /\ homework = <<>>)

\* what check_response raises for a body that is not a dict
NotAMappingErrors ==
    {Exc("DictionaryError", "response imeet nepravilnoe znachenie"),
     Exc("TypeError", "Otvet ne yavlyaetsya slovarem")}

\* what check_response raises when response['homeworks'] is not a list
NotASequenceError == Exc("TypeError", "Domashnyaya rabota ne yavlyaetsya spiskom")

(* C15: check_response rejects every body that is not a mapping with one   *)
(* of its not-a-mapping errors, rejects every mapping whose 'homeworks' is *)
(* not a list, or is missing, with its not-a-sequence error (a different   *)
(* error), and for every mapping whose 'homeworks' is a list it returns    *)
(* the list, of which main keeps the first record.                         *)
C15_ValidationErrorKinds ==
    AfterCheck =>
        IF response.type # "dict"
        THEN pc = "except" /\ error \in NotAMappingErrors
        ELSE IF ~HasHomeworkList(response)
        THEN pc = "except" /\ error = NotASequenceError
        ELSE /\ NotASequenceError \notin NotAMappingErrors
             /\ pc = "compare"
             /\ homework = FirstOf(response)

\* the first record of the response lacks its name or its status
IncompleteFirst ==
    /\ LoopEntered
    /\ NonEmptyList(response)
    /\ ~(FIELDS \subseteq DOMAIN FirstOf(response))

(* C16: for every first record that lacks the name or the status (the      *)
(* empty record included), the cycle fails with KeyError naming a field    *)
(* the record lacks, and no status-change notification is sent.            *)
C16_IncompleteRecordFails ==
    (IncompleteFirst /\ CycleDone)
    => /\ error.cls = "KeyError"
       /\ error.msg \in FIELDS \ DOMAIN FirstOf(response)
       /\ \A i \in DOMAIN sends : ~IsChangeText(sends[i].text)

(* C16, amended: for every first record that lacks the name or the status, *)
(* no status-change notification is sent and the stored last status is not *)
(* changed, at any point of the cycle.  The cycle fails with               *)
(* KeyError('status') when the record is not empty and has no status, and  *)
(* with KeyError('homework_name') when it has a status that differs from   *)
(* the stored one and no name; the empty record, and a nameless record     *)
(* whose status equals the stored one, take the no-change path: no error,  *)
(* nothing sent.                                                           *)
C16_IncompleteRecordNeverNotified ==
    IncompleteFirst
    => /\ \A i \in DOMAIN sends : ~IsChangeText(sends[i].text)
       /\ status = status0
       /\ pc = "sleep"
          => LET hw == FirstOf(response)
             IN  IF hw = <<>> \/ ("status" \in DOMAIN hw /\ hw["status"] = status0)
                 THEN error = NoError /\ sends = <<>>
                 ELSE IF "status" \notin DOMAIN hw
                 THEN error = Exc("KeyError", "status")
                 ELSE error = Exc("KeyError", "homework_name")

\* C16's case: a cycle whose first record has a new status and no name has
\* ended on the error path, its failure notification delivered
C16_Witness ==
    /\ IncompleteFirst
    /\ CycleDone
    /\ DOMAIN FirstOf(response) = {"status"}
    /\ FirstOf(response)["status"] = "approved"
    /\ status0 = ""
    /\ error = Exc("KeyError", "homework_name")
    /\ Delivered(sends) # {}

(* C17: in every reachable state the stored last status is the empty      *)
(* string or one of the three recognized codes: it is assigned only after  *)
(* parse_status has accepted the record.                                   *)
C17_StoredStatusRecognized == status \in {""} \cup Recognized

\* C17's case: the stored status has been assigned in two cycles, and a cycle
\* whose record carries an unrecognized status has left it alone
C17_Witness ==
    /\ LoopEntered
    /\ CycleDone
    /\ status = "approved"
    /\ status0 = "approved"
    /\ requests >= 2
    /\ NonEmptyList(response)
    /\ DOMAIN FirstOf(response) = FIELDS
    /\ FirstOf(response)["status"] = "unknown"

\* the status of the first record of the response is S (seq is <<S>>)
FirstStatusIs(seq) ==
    /\ NonEmptyList(response)
    /\ "status" \in DOMAIN FirstOf(response)
    /\ seq = <<FirstOf(response)["status"]>>

\* no call of send_message of the current cycle carries a status-change text
NoChangeSend == \A i \in DOMAIN sends : ~IsChangeText(sends[i].text)

(* C18: a cycle that ends on the error path leaves the stored last status  *)
(* as it was at the start of the cycle; and when the remote status was S   *)
(* in the latest cycle that did not fail, the cycles since failed, and the *)
(* remote status is S again in the current cycle, the current cycle sends  *)
(* no status-change notification.                                          *)
C18_ErrorPathKeepsStatus ==
    /\ (LoopEntered /\ CycleFailed) => status = status0
    /\ (LoopEntered /\ after_failure /\ FirstStatusIs(seen)) => NoChangeSend

\* C18's case: a cycle saw 'approved', the next cycle failed, and the cycle
\* after it has ended having seen 'approved' again
C18_Witness ==
    /\ LoopEntered
    /\ CycleDone
    /\ after_failure
    /\ seen = <<"approved">>
    /\ FirstStatusIs(seen)
    /\ status = "approved"
    /\ ~CycleFailed

C20_OneSendPerCycle == LoopEntered => Len(sends) <= 1

====
